---- MODULE Spec2Model ----
(***************************************************************************)
(* A model of fence's token validation and RAS visa synchronisation:       *)
(*   fence/jwt/validator.py              JWTValidator                      *)
(*   fence/resources/openid/ras_oauth2.py RASOauth2Client                  *)
(*   fence/sync/passport_sync/ras_sync.py RASVisa._parse_single_visa       *)
(***************************************************************************)
EXTENDS Integers, Sequences, FiniteSets, TLC

VARIABLES
    now,             \* the clock read by pyjwt and by time.time()
    blacklist,       \* jti values of the BlacklistedToken table
    call,            \* the last validator call: its arguments and its outcome
    ga4gh_visas_v1,  \* user.ga4gh_visas_v1 as the ORM session sees it
    db,              \* the committed GA4GHVisaV1 rows of every user
    pkey_cache,      \* issuer -> (kid -> public key), shared by all syncs
    pc,              \* where each user's update_user_visas call stands
    tries,           \* the attempt of the backoff decorator, per user
    encoded_visas,   \* the batch the current attempt iterates over, per user
    idx,             \* the position of the for loop in encoded_visas, per user
    fate,            \* what the current attempt did with each visa so far
    before,          \* how many rows a user had when the sync was called
    commits,         \* db_session.commit() calls of the current attempt
    resolve,         \* how the last key lookup of a user was answered
    errors,          \* what raised out of the attempts of the current call
    parsed,          \* the last _parse_single_visa call and its result
    exchanged,       \* the last get_user_id call: what the provider answered
                     \* and what the call returned
    g                \* flask.g of the request that called get_user_id

vars == <<now, blacklist, call, ga4gh_visas_v1, db, pkey_cache, pc, tries,
          encoded_visas, idx, fate, before, commits, resolve, errors, parsed,
          exchanged, g>>

syncVars == <<ga4gh_visas_v1, db, pkey_cache, pc, tries, encoded_visas, idx,
              fate, before, commits, resolve, errors>>

(***************************************************************************)
(* Bounds of the model.                                                    *)
(***************************************************************************)
MaxTime  == 2   \* the clock runs over 0..MaxTime
MaxBatch == 2   \* visas in one passport
MaxTries == 2   \* max_tries of the backoff policy (a configuration value)

Times == 0..MaxTime

(***************************************************************************)
(* Python dicts as functions on a finite domain; dict.get gives None.      *)
(***************************************************************************)
None == "None"

EmptyDict == [k \in {} |-> None]

Get(d, k) == IF k \in DOMAIN d THEN d[k] ELSE None

GetOr(d, k, default) == IF k \in DOMAIN d THEN d[k] ELSE default

\* dict.update({k: v}) and d[k] = v
Put(d, k, v) == [x \in (DOMAIN d) \cup {k} |-> IF x = k THEN v ELSE d[x]]

\* Python truthiness of a looked-up value
Truthy(v) == v # None /\ v # ""

Range(s) == {s[i] : i \in 1..Len(s)}

(***************************************************************************)
(* Locally issued JWTs (validator.py).  An encoded token is abstracted to  *)
(* what validation reads from it.                                          *)
(***************************************************************************)
HOST_NAME == "https://fence.example"

SystemKey == "fence_key"

Jtis == {"j1", "j2"}

AudSets ==
    { {}, {"access"}, {"refresh"}, {"access", "data"},
      {"a", "c", "e", "s"}, {"a", "c", "e", "s", "data"} }

EmptyToken ==
    [present |-> FALSE, signer |-> None, aud |-> {}, iss |-> None,
     exp |-> 0, jti |-> None]

Tokens ==
    {EmptyToken} \cup
    [present : {TRUE}, signer : {SystemKey, "forged"}, aud : AudSets,
     iss : {HOST_NAME, "https://other.example"}, exp : {0, MaxTime},
     jti : Jtis \cup {None}]

ScopeLists == { <<>>, <<"data">> }

\* iterating a Python str yields its characters
Chars(str) ==
    CASE str = "access"  -> {"a", "c", "e", "s"}
      [] str = "refresh" -> {"r", "e", "f", "s", "h"}
      [] OTHER           -> {}

\* pyjwt: signature under the key, and exp not before the clock
JwtDecodes(token, key, t) ==
    /\ token.present
    /\ token.signer = key
    /\ token.exp >= t

\* cdispyutils auth.validate_jwt: decodes, then demands every audience and
\* the issuer
AuthValidateJwt(token, key, aud, iss, t) ==
    /\ JwtDecodes(token, key, t)
    /\ aud \subseteq token.aud
    /\ token.iss = iss

Returned(v, msg) ==
    [returned |-> TRUE, value |-> v, error_message |-> msg, exc |-> None]

Raised(e) == [returned |-> FALSE, value |-> FALSE, error_message |-> None, exc |-> e]

NoCall == [op |-> "none", token |-> EmptyToken, scopes |-> <<>>, at |-> 0,
           out |-> Returned(FALSE, None)]

\* the audience validate_bearer_token demands: aud = set(scopes);
\* aud.update('access')
BearerAud(scopes) == Range(scopes) \cup Chars("access")

validate_bearer_token(token, scopes, t) ==
    IF ~token.present
    THEN Returned(FALSE, "No token provided.")
    ELSE IF ~AuthValidateJwt(token, SystemKey, BearerAud(scopes), HOST_NAME, t)
         THEN Returned(FALSE, "JWTValidationError")
         ELSE Returned(TRUE, None)

\* the same without the BlacklistedToken query
validate_refresh_token_unlisted(token, bl, t) ==
    IF ~token.present
    THEN Returned(FALSE, "No token provided.")
    ELSE IF ~AuthValidateJwt(token, SystemKey, {"refresh"}, HOST_NAME, t)
         THEN Raised("JWTValidationError")
         ELSE IF ~Truthy(token.jti)
              THEN Returned(FALSE, "Token missing jti claim.")
              ELSE Returned(TRUE, None)

\* the same without the check of the jti claim
validate_refresh_token_nojti(token, bl, t) ==
    IF ~token.present
    THEN Returned(FALSE, "No token provided.")
    ELSE IF ~AuthValidateJwt(token, SystemKey, {"refresh"}, HOST_NAME, t)
         THEN Raised("JWTValidationError")
         ELSE IF token.jti \in bl
              THEN Returned(FALSE, "Token is blacklisted.")
              ELSE Returned(TRUE, None)

validate_refresh_token(token, bl, t) ==
    IF ~token.present
    THEN Returned(FALSE, "No token provided.")
    ELSE IF ~AuthValidateJwt(token, SystemKey, {"refresh"}, HOST_NAME, t)
         THEN Raised("JWTValidationError")
         ELSE IF ~Truthy(token.jti)
              THEN Returned(FALSE, "Token missing jti claim.")
              ELSE IF token.jti \in bl
                   THEN Returned(FALSE, "Token is blacklisted.")
                   ELSE Returned(TRUE, None)

(***************************************************************************)
(* GA4GH visas (ras_oauth2.py).  An encoded visa is abstracted to what     *)
(* get_iss/get_kid, validate_jwt and the GA4GHVisaV1 constructor read.     *)
(***************************************************************************)
Users == {"u1", "u2"}

GA4GH_VISA_ISSUER_ALLOWLIST == {"https://ras.example"}

RAS == "https://ras.example"

EVIL == "https://evil.example"

\* the key sets an issuer's jwks endpoint may answer with
KeySets(iss) ==
    CASE iss = RAS  -> { [k \in {"k1"} |-> "ras_" \o k],
                         [k \in {"k1", "k2"} |-> "ras_" \o k] }
      [] iss = EVIL -> { [k \in {"e1"} |-> "evil_" \o k] }
      [] OTHER      -> { EmptyDict }

Claim == [source |-> "https://ncbi.nlm.nih.gov/gap", type |-> "RASv1", asserted |-> 0]

Perm1 == [phs_id |-> "phs000200", consent_group |-> "c1", role |-> "member"]

Perm2 == [phs_id |-> "phs000300", role |-> "pi"]

Good ==
    [name |-> "good", wf |-> TRUE, iss |-> RAS, kid |-> "k1",
     signer |-> "ras_k1", exp |-> 1, iat |-> TRUE, aud |-> FALSE,
     scope |-> {"openid", "ga4gh_passport_v1"}, sub |-> TRUE,
     ga4gh_visa_v1 |-> Claim, ras_dbgap_permissions |-> <<Perm1>>]

Good2 ==
    [Good EXCEPT !.name = "good2", !.kid = "k2", !.signer = "ras_k2",
                 !.exp = MaxTime, !.ras_dbgap_permissions = <<Perm1, Perm2>>]

Malformed == [Good EXCEPT !.name = "malformed", !.wf = FALSE]

UnknownKid == [Good EXCEPT !.name = "unknownkid", !.kid = "k9", !.signer = "ras_k9"]

Expired == [Good EXCEPT !.name = "expired", !.exp = 0]

BadSig == [Good EXCEPT !.name = "badsig", !.signer = "forged", !.exp = MaxTime]

NoScope == [Good EXCEPT !.name = "noscope", !.scope = {"email"}, !.exp = MaxTime]

Evil ==
    [Good EXCEPT !.name = "evil", !.iss = EVIL, !.kid = "e1",
                 !.signer = "evil_e1", !.exp = MaxTime]

NoSub == [Good EXCEPT !.name = "nosub", !.sub = FALSE, !.exp = MaxTime]

NoClaim ==
    [Good EXCEPT !.name = "noclaim", !.ga4gh_visa_v1 = EmptyDict, !.exp = MaxTime]

EncodedVisas ==
    {Good, Good2, Malformed, UnknownKid, Expired, BadSig, NoScope, Evil, NoSub,
     NoClaim}

RECURSIVE SeqsUpTo(_, _)
SeqsUpTo(S, n) ==
    IF n = 0 THEN { <<>> }
    ELSE LET shorter == SeqsUpTo(S, n - 1)
         IN  shorter \cup { Append(s, x) : s \in shorter, x \in S }

Batches == SeqsUpTo(EncodedVisas, MaxBatch)

\* the same without the check for 'sub'
VisaValidates_nosub(v, public_key, t) ==
    /\ v.signer = public_key
    /\ v.exp >= t
    /\ v.iat
    /\ ~v.aud
    /\ v.iss \in GA4GH_VISA_ISSUER_ALLOWLIST
    /\ {"openid"} \subseteq v.scope

\* authutils validate_jwt(token, key, aud=None, scope={"openid"}, issuers,
\* options={require_iat, require_exp}) followed by the check for 'sub'
VisaValidates(v, public_key, t) ==
    /\ v.signer = public_key
    /\ v.exp >= t
    /\ v.iat
    /\ ~v.aud
    /\ v.iss \in GA4GH_VISA_ISSUER_ALLOWLIST
    /\ {"openid"} \subseteq v.scope
    /\ v.sub

\* GA4GHVisaV1(user=user, source=..., type=..., asserted=..., expires=...,
\* ga4gh_visa=encoded_visa); era tells the rows of the running sync from
\* the rows the user had when it was called
GA4GHVisaV1(v) ==
    [source |-> v.ga4gh_visa_v1.source, type |-> v.ga4gh_visa_v1.type,
     asserted |-> v.ga4gh_visa_v1.asserted, expires |-> v.exp,
     ga4gh_visa |-> v, era |-> "current"]

\* decoded_visa["ga4gh_visa_v1"]["source"] and the like raise KeyError
Materializes(v) == {"source", "type", "asserted"} \subseteq DOMAIN v.ga4gh_visa_v1

\* the assignment left out
ClearedVisas_kept(rows) == rows

\* user.ga4gh_visas_v1 = []
ClearedVisas(rows) == << >>

\* the commit left out
Commit_skipped(stored, u, rows) == stored

\* the commit writing the rows to every user
Commit_everyone(stored, u, rows) == [w \in DOMAIN stored |-> rows]

\* db_session.commit(): the session's rows of the user become the stored ones
Commit(stored, u, rows) == [stored EXCEPT ![u] = rows]

\* the lookup by issuer alone: the issuer's key 'k1' whatever the visa's kid
CachedKey_anykid(cache, v) == Get(GetOr(cache, v.iss, EmptyDict), "k1")

\* pkey_cache.get(visa_issuer, {}).get(visa_kid)
CachedKey(cache, v) == Get(GetOr(cache, v.iss, EmptyDict), v.kid)

\* the key set fetched whatever the cache holds
CacheMiss_always(public_key) == TRUE

\* 'if not public_key:' before refresh_cronjob_pkey_cache is called
CacheMiss(public_key) == ~Truthy(public_key)

(***************************************************************************)
(* update_user_visas, one call per user under                              *)
(* backoff.on_exception(backoff.expo, Exception, max_tries=MaxTries).      *)
(***************************************************************************)
AsPrior(rows) == [i \in 1..Len(rows) |-> [rows[i] EXCEPT !.era = "prior"]]

\* the caller (login callback or cron job) calls update_user_visas(user, ...)
Call(u) ==
    /\ pc[u] = "idle"
    /\ pc' = [pc EXCEPT ![u] = "clear"]
    /\ tries' = [tries EXCEPT ![u] = 1]
    /\ before' = [before EXCEPT ![u] = Len(db[u])]
    /\ db' = [db EXCEPT ![u] = AsPrior(db[u])]
    /\ ga4gh_visas_v1' = [ga4gh_visas_v1 EXCEPT ![u] = AsPrior(ga4gh_visas_v1[u])]
    /\ errors' = [errors EXCEPT ![u] = {}]
    /\ fate' = [fate EXCEPT ![u] = <<>>]
    /\ commits' = [commits EXCEPT ![u] = 0]
    /\ encoded_visas' = [encoded_visas EXCEPT ![u] = <<>>]
    /\ idx' = [idx EXCEPT ![u] = 0]
    /\ resolve' = [resolve EXCEPT ![u] = "none"]
    /\ UNCHANGED <<now, blacklist, call, pkey_cache, parsed, exchanged, g>>

\* user.ga4gh_visas_v1 = []; db_session.commit()
ClearVisas(u) ==
    /\ pc[u] = "clear"
    /\ ga4gh_visas_v1' =
           [ga4gh_visas_v1 EXCEPT ![u] = ClearedVisas(ga4gh_visas_v1[u])]
    /\ db' = Commit(db, u, ga4gh_visas_v1'[u])
    /\ commits' = [commits EXCEPT ![u] = 1]
    /\ fate' = [fate EXCEPT ![u] = <<>>]
    /\ encoded_visas' = [encoded_visas EXCEPT ![u] = <<>>]
    /\ idx' = [idx EXCEPT ![u] = 0]
    /\ pc' = [pc EXCEPT ![u] = "retrieve"]
    /\ UNCHANGED <<now, blacklist, call, pkey_cache, tries, before, resolve,
                   errors, parsed, exchanged, g>>

\* an exception leaves the function: the decorator calls it again until
\* max_tries attempts were made, then lets the exception through
\* the decorator around the fetch alone: a retry starts at the token fetch
PcAfterException_retrieve(n) == IF n < MaxTries THEN "retrieve" ELSE "failed"

\* no decorator: the first exception goes to the caller
PcAfterException_giveup(n) == "failed"

PcAfterException(n) == IF n < MaxTries THEN "clear" ELSE "failed"

\* max_tries not counted
TriesAfterException_uncounted(n) == 1

TriesAfterException(n) == IF n < MaxTries THEN n + 1 ELSE n

Raise(u, what) ==
    /\ errors' = [errors EXCEPT ![u] = @ \cup {what}]
    /\ pc' = [pc EXCEPT ![u] = PcAfterException(tries[u])]
    /\ tries' = [tries EXCEPT ![u] = TriesAfterException(tries[u])]

\* what the provider answers to one attempt: the token endpoint, then the
\* userinfo endpoint
\* requests.get raised: there is no response
Unreachable ==
    [reached |-> FALSE, status_code |-> 0, is_json |-> FALSE, json |-> EmptyDict]

\* a response: its status, whether res.json() parses the body, and the
\* document it parses to
HttpResponse(status_code, is_json, json) ==
    [reached |-> TRUE, status_code |-> status_code, is_json |-> is_json,
     json |-> IF is_json THEN json ELSE EmptyDict]

TokenFailure == [token |-> FALSE, res |-> Unreachable]

\* a passport is written as whether it is a valid token and the visas it
\* carries; NonePassport is the None of a userinfo without the claim
NonePassport == [valid |-> FALSE, visas |-> <<>>, none |-> TRUE]

Passport(valid, visas) == [valid |-> valid, visas |-> visas, none |-> FALSE]

PassportDoc(passport) == [k \in {"passport_jwt_v11"} |-> passport]

UserinfoResponses ==
    { Unreachable,
      HttpResponse(503, FALSE, EmptyDict), HttpResponse(503, TRUE, EmptyDict),
      HttpResponse(200, FALSE, EmptyDict), HttpResponse(200, TRUE, EmptyDict),
      HttpResponse(200, TRUE, PassportDoc(Passport(FALSE, <<>>))) }
    \cup { HttpResponse(200, TRUE, PassportDoc(Passport(TRUE, b))) : b \in Batches }

Responses ==
    {TokenFailure} \cup { [token |-> TRUE, res |-> r] : r \in UserinfoResponses }

\* a non-200 status raising, as raise_for_status() would
get_userinfo_strict(res) ==
    IF ~res.reached \/ res.status_code # 200 \/ ~res.is_json
    THEN [raised |-> TRUE, value |-> EmptyDict]
    ELSE [raised |-> FALSE, value |-> res.json]

\* get_userinfo: requests.get may raise; a status other than 200 is logged
\* (res.json() tried, its exception passed over) and {} returned; on 200
\* res.json() is returned, and raises on a body that is not JSON
get_userinfo(res) ==
    IF ~res.reached
    THEN [raised |-> TRUE, value |-> EmptyDict]
    ELSE IF res.status_code # 200
         THEN [raised |-> FALSE, value |-> EmptyDict]
         ELSE IF res.is_json
              THEN [raised |-> FALSE, value |-> res.json]
              ELSE [raised |-> TRUE, value |-> EmptyDict]

\* fence.resources.ga4gh.passports: raises unless it is given a valid
\* passport, and else returns the visas embedded in it, unvalidated
get_unvalidated_visas_from_valid_passport(passport) ==
    IF passport.none \/ ~passport.valid
    THEN [raised |-> TRUE, visas |-> <<>>]
    ELSE [raised |-> FALSE, visas |-> passport.visas]

\* encoded_passport = userinfo.get("passport_jwt_v11")
get_encoded_visas_v11_userinfo(userinfo) ==
    LET encoded_passport == GetOr(userinfo, "passport_jwt_v11", NonePassport)
    IN  get_unvalidated_visas_from_valid_passport(encoded_passport)

\* the try block of lines 166-175, the provider answering with one of
\* 'answers'
RetrieveFrom(u, answers) ==
    /\ pc[u] = "retrieve"
    /\ \E answer \in answers :
          IF ~answer.token
          THEN /\ Raise(u, "token")
               /\ UNCHANGED <<encoded_visas, idx>>
          ELSE LET userinfo == get_userinfo(answer.res)
                   got == IF userinfo.raised
                          THEN [raised |-> TRUE, visas |-> <<>>]
                          ELSE get_encoded_visas_v11_userinfo(userinfo.value)
               IN  IF got.raised
                   THEN /\ Raise(u, "userinfo")
                        /\ UNCHANGED <<encoded_visas, idx>>
                   ELSE /\ encoded_visas' = [encoded_visas EXCEPT ![u] = got.visas]
                        /\ idx' = [idx EXCEPT ![u] = 1]
                        /\ pc' = [pc EXCEPT ![u] =
                                     IF got.visas = <<>> THEN "done" ELSE "visa"]
                        /\ UNCHANGED <<tries, errors>>
    /\ UNCHANGED <<now, blacklist, call, ga4gh_visas_v1, db, pkey_cache, fate,
                   before, commits, resolve, parsed, exchanged, g>>

RetrieveVisas(u) == RetrieveFrom(u, Responses)

(***************************************************************************)
(* The body of 'for encoded_visa in encoded_visas'.                        *)
(***************************************************************************)
\* 'break' where the code has 'continue'
NextPc_break(u) == "done"

\* 'continue', or the end of an iteration: the loop goes to the next visa
NextPc(u) == IF idx[u] < Len(encoded_visas[u]) THEN "visa" ELSE "done"

\* 'raise' where the code has 'continue'
Discard_raise(u, why) ==
    /\ Raise(u, "visa")
    /\ fate' = [fate EXCEPT ![u] = Append(@, why)]
    /\ UNCHANGED <<ga4gh_visas_v1, db, commits, idx>>

Discard(u, why) ==
    /\ fate' = [fate EXCEPT ![u] = Append(@, why)]
    /\ idx' = [idx EXCEPT ![u] = @ + 1]
    /\ pc' = [pc EXCEPT ![u] = NextPc(u)]
    /\ UNCHANGED <<ga4gh_visas_v1, db, commits, tries, errors>>

\* 'if not public_key:' after the lookup and the refresh (line 201)
NoPublicKey(public_key) == ~Truthy(public_key)

\* the row added to the session and not committed
Persist_uncommitted(u, v) ==
    /\ ga4gh_visas_v1' =
           [ga4gh_visas_v1 EXCEPT ![u] = Append(@, GA4GHVisaV1(v))]
    /\ fate' = [fate EXCEPT ![u] = Append(@, "persisted")]
    /\ idx' = [idx EXCEPT ![u] = @ + 1]
    /\ pc' = [pc EXCEPT ![u] = NextPc(u)]
    /\ UNCHANGED <<db, commits, tries, errors>>

\* the row added to the session twice
Persist_twice(u, v) ==
    /\ ga4gh_visas_v1' =
           [ga4gh_visas_v1 EXCEPT
               ![u] = Append(Append(@, GA4GHVisaV1(v)), GA4GHVisaV1(v))]
    /\ db' = Commit(db, u, ga4gh_visas_v1'[u])
    /\ commits' = [commits EXCEPT ![u] = @ + 1]
    /\ fate' = [fate EXCEPT ![u] = Append(@, "persisted")]
    /\ idx' = [idx EXCEPT ![u] = @ + 1]
    /\ pc' = [pc EXCEPT ![u] = NextPc(u)]
    /\ UNCHANGED <<tries, errors>>

\* lines 241-252: the row is built, added to the session and committed
Persist(u, v) ==
    /\ ga4gh_visas_v1' =
           [ga4gh_visas_v1 EXCEPT ![u] = Append(@, GA4GHVisaV1(v))]
    /\ db' = Commit(db, u, ga4gh_visas_v1'[u])
    /\ commits' = [commits EXCEPT ![u] = @ + 1]
    /\ fate' = [fate EXCEPT ![u] = Append(@, "persisted")]
    /\ idx' = [idx EXCEPT ![u] = @ + 1]
    /\ pc' = [pc EXCEPT ![u] = NextPc(u)]
    /\ UNCHANGED <<tries, errors>>

\* lines 208-252 for a visa whose key is at hand
ValidateAndPersist(u, v, public_key) ==
    IF ~VisaValidates(v, public_key, now)
    THEN Discard(u, "invalid")
    ELSE IF ~Materializes(v)
         THEN /\ Raise(u, "visa")
              /\ fate' = [fate EXCEPT ![u] = Append(@, "error")]
              /\ UNCHANGED <<ga4gh_visas_v1, db, commits, idx>>
         ELSE Persist(u, v)

\* lines 178-191 and, when the key is cached, on to the end of the iteration
ProcessVisa(u) ==
    /\ pc[u] = "visa"
    /\ LET v == encoded_visas[u][idx[u]]
           public_key == CachedKey(pkey_cache, v)
       IN  IF ~v.wf
           THEN /\ Discard(u, "malformed")
                /\ UNCHANGED resolve
           ELSE IF CacheMiss(public_key)
                THEN /\ pc' = [pc EXCEPT ![u] = "jwks"]
                     /\ resolve' = [resolve EXCEPT ![u] = "miss"]
                     /\ UNCHANGED <<ga4gh_visas_v1, db, commits, tries, errors,
                                    fate, idx>>
                ELSE /\ resolve' = [resolve EXCEPT ![u] = "hit"]
                     /\ ValidateAndPersist(u, v, public_key)
    /\ UNCHANGED <<now, blacklist, call, pkey_cache, encoded_visas, before, parsed, exchanged, g>>

\* fence.resources.ga4gh.passports: the keys of the key set fetched from
\* the issuer are stored in the cache under (issuer, key id), a fetched key
\* written over the one the cache held under the same pair
refresh_cronjob_pkey_cache(cache, issuer, keys) ==
    LET held == GetOr(cache, issuer, EmptyDict)
    IN  Put(cache, issuer,
            [k \in (DOMAIN held) \cup (DOMAIN keys) |->
                IF k \in DOMAIN keys THEN keys[k] ELSE held[k]])

\* lines 192-206 once the issuer answered, and on to the end of the
\* iteration: the fetch raised, or it gave a key set with or without the kid
RefreshPkeyCache(u) ==
    /\ pc[u] = "jwks"
    /\ LET v == encoded_visas[u][idx[u]]
       IN  \/ /\ Discard(u, "keyfetch")
              /\ UNCHANGED pkey_cache
           \/ \E keys \in KeySets(v.iss) :
                 /\ pkey_cache' = refresh_cronjob_pkey_cache(pkey_cache, v.iss, keys)
                 /\ IF NoPublicKey(Get(keys, v.kid))
                    THEN Discard(u, "nokey")
                    ELSE ValidateAndPersist(u, v, Get(keys, v.kid))
    /\ UNCHANGED <<now, blacklist, call, encoded_visas, before, resolve, parsed, exchanged, g>>

\* the call is over: it returned, or the last attempt's exception came out
Finish(u) ==
    /\ pc[u] \in {"done", "failed"}
    /\ pc' = [pc EXCEPT ![u] = "idle"]
    /\ tries' = [tries EXCEPT ![u] = 0]
    /\ encoded_visas' = [encoded_visas EXCEPT ![u] = <<>>]
    /\ idx' = [idx EXCEPT ![u] = 0]
    /\ fate' = [fate EXCEPT ![u] = <<>>]
    /\ before' = [before EXCEPT ![u] = 0]
    /\ commits' = [commits EXCEPT ![u] = 0]
    /\ resolve' = [resolve EXCEPT ![u] = "none"]
    /\ errors' = [errors EXCEPT ![u] = {}]
    /\ UNCHANGED <<now, blacklist, call, ga4gh_visas_v1, db, pkey_cache, parsed, exchanged, g>>

Tick ==
    /\ now < MaxTime
    /\ now' = now + 1
    /\ UNCHANGED <<blacklist, call, parsed, exchanged, g>>
    /\ UNCHANGED syncVars

(***************************************************************************)
(* RASOauth2Client.get_user_id: the exchange of an authorization code.     *)
(***************************************************************************)
err_msg == "Can't get user's info"

\* the dicts with keys among 'keys' and values among 'values'
Dicts(keys, values) == UNION { [K -> values] : K \in SUBSET keys }

NameValues == {"", "alice", "bob"}

\* the documents the userinfo endpoint may answer a login with
UserinfoDocs ==
    { [k \in DOMAIN d \cup E |-> IF k \in E THEN "a@example.org" ELSE d[k]] :
         d \in Dicts({"UserID", "userid", "preferred_username"}, NameValues),
         E \in { {}, {"email"} } }

LoginResponses ==
    { Unreachable, HttpResponse(503, FALSE, EmptyDict),
      HttpResponse(401, TRUE, [k \in {"UserID"} |-> "alice"]),
      HttpResponse(200, FALSE, EmptyDict) }
    \cup { HttpResponse(200, TRUE, d) : d \in UserinfoDocs }

\* the claims of an ID token: with or without 'sub'
IdClaims == Dicts({"sub"}, {"", "carol"})

\* token["id_token"] as jose_jwt.decode(..., keys, ...) takes it: the
\* decoding raises, or gives the claims
IdTokens ==
    { [decodes |-> FALSE, claims |-> EmptyDict] }
    \cup { [decodes |-> TRUE, claims |-> c] : c \in IdClaims }

\* what the provider answers to one exchange: whether get_token and
\* get_jwt_keys return, the ID token, whether the access token decodes,
\* and the response of the userinfo endpoint
Exchanges ==
    [token_ok : BOOLEAN, keys_ok : BOOLEAN, id_token : IdTokens,
     access_ok : BOOLEAN, res : LoginResponses]

\* the access token's decoding failure not caught
ExchangeRaises_access_unchecked(x) ==
    \/ ~x.token_ok
    \/ ~x.keys_ok
    \/ get_userinfo(x.res).raised
    \/ ~x.id_token.decodes

\* lines 96-115 inside 'try': get_token, get_jwt_keys, get_userinfo and the
\* two jose_jwt.decode calls; any exception reaches 'except Exception'
ExchangeRaises(x) ==
    \/ ~x.token_ok
    \/ ~x.keys_ok
    \/ get_userinfo(x.res).raised
    \/ ~x.id_token.decodes
    \/ ~x.access_ok

\* 'userid' looked up before 'UserID'
Username_userid_first(userinfo, claims) ==
    IF Truthy(Get(userinfo, "userid")) THEN userinfo["userid"]
    ELSE IF Truthy(Get(userinfo, "UserID")) THEN userinfo["UserID"]
    ELSE IF Truthy(Get(userinfo, "preferred_username"))
         THEN userinfo["preferred_username"]
    ELSE IF Truthy(Get(claims, "sub")) THEN claims["sub"]
    ELSE None

\* lines 117-129: the if/elif chain over userinfo and the ID token's claims
Username(userinfo, claims) ==
    IF Truthy(Get(userinfo, "UserID")) THEN userinfo["UserID"]
    ELSE IF Truthy(Get(userinfo, "userid")) THEN userinfo["userid"]
    ELSE IF Truthy(Get(userinfo, "preferred_username"))
         THEN userinfo["preferred_username"]
    ELSE IF Truthy(Get(claims, "sub")) THEN claims["sub"]
    ELSE None

\* return {"error": err_msg}
ErrorResult == [k \in {"error"} |-> err_msg]

\* the value get_user_id returns, and flask.g as it leaves it, g0 being
\* flask.g when it was called; 'raised' is there for what leaves the
\* function as an exception, which no path of the code does
get_user_id(x, g0) ==
    IF ExchangeRaises(x)
    THEN [raised |-> FALSE, value |-> ErrorResult, g |-> g0]
    ELSE LET token == [id_token |-> x.id_token, access_token |-> x.access_ok]
             keys == "jwks"
             userinfo == get_userinfo(x.res).value
             claims == x.id_token.claims
             username == Username(userinfo, claims)
         IN  IF ~Truthy(username)
             THEN [raised |-> FALSE, value |-> ErrorResult, g |-> g0]
             ELSE [raised |-> FALSE,
                   value |-> [username |-> username,
                              email |-> Get(userinfo, "email")],
                   g |-> [userinfo |-> userinfo, tokens |-> token,
                          keys |-> keys]]

NoExchange == [op |-> "none"]

\* a login callback: a request, with a flask.g of its own, calls get_user_id
GetUserId ==
    /\ exchanged = NoExchange
    /\ \E x \in Exchanges :
          LET result == get_user_id(x, EmptyDict)
          IN  /\ exchanged' = [op |-> "get_user_id", x |-> x,
                               userinfo |-> get_userinfo(x.res),
                               raised |-> result.raised, out |-> result.value]
              /\ g' = result.g
    /\ UNCHANGED <<now, blacklist, call, parsed>>
    /\ UNCHANGED syncVars

\* the request is over
EndRequest ==
    /\ exchanged # NoExchange
    /\ exchanged' = NoExchange
    /\ g' = EmptyDict
    /\ UNCHANGED <<now, blacklist, call, parsed>>
    /\ UNCHANGED syncVars

InitLogin ==
    /\ exchanged = NoExchange
    /\ g = EmptyDict

(***************************************************************************)
(* The specification of one user's syncs.                                  *)
(***************************************************************************)
\* a row left by an earlier sync
PriorRow == [GA4GHVisaV1(Good) EXCEPT !.era = "prior"]

InitJwt ==
    /\ blacklist = {}
    /\ call = NoCall

\* no call of update_user_visas is running and the key cache is empty
InitLocals ==
    /\ pkey_cache = EmptyDict
    /\ pc = [u \in Users |-> "idle"]
    /\ tries = [u \in Users |-> 0]
    /\ encoded_visas = [u \in Users |-> <<>>]
    /\ idx = [u \in Users |-> 0]
    /\ fate = [u \in Users |-> <<>>]
    /\ before = [u \in Users |-> 0]
    /\ commits = [u \in Users |-> 0]
    /\ resolve = [u \in Users |-> "none"]
    /\ errors = [u \in Users |-> {}]

\* the users outside S start with one stored row, those in S with any
InitSync(S) ==
    /\ ga4gh_visas_v1 \in
           { f \in [Users -> { <<>>, <<PriorRow>> }] :
                 \A u \in Users \ S : f[u] = <<PriorRow>> }
    /\ db = ga4gh_visas_v1
    /\ InitLocals

NoParse == [op |-> "none"]

SyncUser == "u1"

\* the clock stands at the exp of Good for the length of a sync
Init ==
    /\ now = 1
    /\ InitJwt
    /\ InitSync({SyncUser})
    /\ parsed = NoParse
    /\ InitLogin

Next ==
    \/ Call(SyncUser)
    \/ ClearVisas(SyncUser)
    \/ RetrieveVisas(SyncUser)
    \/ ProcessVisa(SyncUser)
    \/ RefreshPkeyCache(SyncUser)
    \/ Finish(SyncUser)

Spec == Init /\ [][Next]_vars

(***************************************************************************)
(* The specification of the token validator: requests arrive with any      *)
(* token, tokens get revoked, time passes.                                 *)
(***************************************************************************)
\* logout/revocation adds the jti of a refresh token to BlacklistedToken
BlacklistToken ==
    /\ \E j \in Jtis :
          /\ j \notin blacklist
          /\ blacklist' = blacklist \cup {j}
    /\ call' = NoCall
    /\ UNCHANGED <<now, parsed, exchanged, g>>
    /\ UNCHANGED syncVars

ValidateBearerToken ==
    /\ \E token \in Tokens, scopes \in ScopeLists :
          call' = [op |-> "validate_bearer_token", token |-> token,
                   scopes |-> scopes, at |-> now,
                   out |-> validate_bearer_token(token, scopes, now)]
    /\ UNCHANGED <<now, blacklist, parsed, exchanged, g>>
    /\ UNCHANGED syncVars

ValidateRefreshToken ==
    /\ \E token \in Tokens :
          call' = [op |-> "validate_refresh_token", token |-> token,
                   scopes |-> <<>>, at |-> now,
                   out |-> validate_refresh_token(token, blacklist, now)]
    /\ UNCHANGED <<now, blacklist, parsed, exchanged, g>>
    /\ UNCHANGED syncVars

NextJwt ==
    \/ BlacklistToken
    \/ ValidateBearerToken
    \/ ValidateRefreshToken
    \/ Tick

InitJwtSpec ==
    /\ now = 0
    /\ InitJwt
    /\ InitSync({})
    /\ parsed = NoParse
    /\ InitLogin

SpecJwt == InitJwtSpec /\ [][NextJwt]_vars

\* every claim of the token but the blacklist is in order at the time of
\* the call
RefreshTokenVerifies(token, t) ==
    /\ AuthValidateJwt(token, SystemKey, {"refresh"}, HOST_NAME, t)
    /\ Truthy(token.jti)

IsRefreshCall == call.op = "validate_refresh_token"

IsBearerCall == call.op = "validate_bearer_token"

Accepted == call.out.returned /\ call.out.value

\* C1: a refresh token whose jti is blacklisted is never accepted, and is
\* answered with False when its signature, audience, issuer, expiry and jti
\* are all in order; the blacklist only grows, so this stays so for every
\* later call on that token.
C1_BlacklistedRefreshRejected ==
    /\ [](IsRefreshCall /\ call.token.jti \in blacklist
            => /\ ~Accepted
               /\ RefreshTokenVerifies(call.token, call.at)
                    => call.out = Returned(FALSE, "Token is blacklisted."))
    /\ [][blacklist \subseteq blacklist']_vars

C1_Witness ==
    /\ IsRefreshCall
    /\ call.token.jti \in blacklist
    /\ RefreshTokenVerifies(call.token, call.at)
    /\ call.out = Returned(FALSE, "Token is blacklisted.")

\* C2: validate_bearer_token answers False for every token that is empty,
\* expired or without the 'access' audience, whatever the scopes.
C2_BearerNeedsAccessAudience ==
    IsBearerCall
    /\ (\/ ~call.token.present
        \/ call.token.exp < call.at
        \/ "access" \notin call.token.aud)
    => call.out = Returned(FALSE, call.out.error_message)

\* C3: every failed validation, of a bearer or of a refresh token, comes
\* back as the value False with a reason in request.error_message, never
\* as an exception.
C3_FailuresReturnFalseWithReason ==
    (IsBearerCall \/ IsRefreshCall) /\ ~Accepted
    => /\ call.out.returned
       /\ call.out.value = FALSE
       /\ Truthy(call.out.error_message)

(***************************************************************************)
(* Properties of update_user_visas.                                        *)
(***************************************************************************)
RowsOf(rows, era) == SelectSeq(rows, LAMBDA r : r.era = era)

Running(u) == pc[u] # "idle"

\* C4: while a sync runs, no row the user had before the sync started is
\* there together with a row persisted by this sync, in the session and in
\* the stored rows alike.
C4_ClearPrecedesPersist ==
    \A u \in Users :
       /\ RowsOf(db[u], "prior") = <<>> \/ RowsOf(db[u], "current") = <<>>
       /\ \/ RowsOf(ga4gh_visas_v1[u], "prior") = <<>>
          \/ RowsOf(ga4gh_visas_v1[u], "current") = <<>>

C4_Witness ==
    /\ before[SyncUser] > 0
    /\ pc[SyncUser] \in {"visa", "jwks", "done"}
    /\ RowsOf(db[SyncUser], "current") # <<>>

\* C5: when the token retrieval failed on every attempt the call ends in
\* failure, after MaxTries attempts, and the user has no row left.
C5_TokenFailureLeavesNoVisa ==
    \A u \in Users :
       pc[u] = "failed" /\ errors[u] = {"token"}
       => /\ tries[u] = MaxTries
          /\ db[u] = <<>>
          /\ ga4gh_visas_v1[u] = <<>>

C5_Witness ==
    /\ pc[SyncUser] = "failed"
    /\ errors[SyncUser] = {"token"}
    /\ before[SyncUser] > 0

\* the key the issuer publishes for the visa's key id signed the visa
SignedByPublishedKey(v) ==
    \E keys \in KeySets(v.iss) : Get(keys, v.kid) = v.signer

FullyValid(v, t) ==
    /\ v.wf
    /\ SignedByPublishedKey(v)
    /\ v.exp >= t
    /\ "openid" \in v.scope
    /\ v.iss \in GA4GH_VISA_ISSUER_ALLOWLIST
    /\ v.sub

\* C6: every row a sync persisted is of a visa that passed the whole
\* validation: key resolved, signature, expiry, scope openid, issuer in the
\* allowlist, sub present.
C6_PersistedVisasValidated ==
    \A u \in Users :
       /\ \A i \in 1..Len(db[u]) :
             db[u][i].era = "current" => FullyValid(db[u][i].ga4gh_visa, now)
       /\ \A i \in 1..Len(ga4gh_visas_v1[u]) :
             ga4gh_visas_v1[u][i].era = "current"
                => FullyValid(ga4gh_visas_v1[u][i].ga4gh_visa, now)

C6_Witness ==
    /\ pc[SyncUser] = "done"
    /\ fate[SyncUser] = <<"persisted", "invalid">>
    /\ RowsOf(db[SyncUser], "current") # <<>>

\* what may become of a visa, judged by that visa alone
OwnFates(v, t) ==
    IF ~v.wf THEN {"malformed"}
    ELSE IF ~FullyValid(v, t) \/ v.aud \/ ~v.iat
         THEN {"keyfetch", "nokey", "invalid"}
         ELSE IF Materializes(v)
              THEN {"keyfetch", "nokey", "persisted"}
              ELSE {"keyfetch", "nokey", "error"}

RECURSIVE PersistedRows(_, _)
PersistedRows(batch, fates) ==
    IF fates = <<>> THEN <<>>
    ELSE LET n == Len(fates)
             front == PersistedRows(batch, SubSeq(fates, 1, n - 1))
         IN  IF fates[n] = "persisted"
             THEN Append(front, GA4GHVisaV1(batch[n]))
             ELSE front

\* C7: in a batch every visa meets the fate it earns by itself; as long as
\* no visa raised, the loop goes on to the next position and reaches the
\* end of the batch; and the rows of the attempt are those of the visas
\* accepted so far, in order.
C7_PerItemIndependent ==
    \A u \in Users :
       Running(u) =>
          /\ \A i \in 1..Len(fate[u]) :
                fate[u][i] \in OwnFates(encoded_visas[u][i], now)
          /\ "error" \notin Range(fate[u]) /\ pc[u] \in {"visa", "jwks", "done"}
                => /\ idx[u] = Len(fate[u]) + 1
                   /\ pc[u] = "done" <=> Len(fate[u]) = Len(encoded_visas[u])
          /\ RowsOf(db[u], "current") = PersistedRows(encoded_visas[u], fate[u])

C7_Witness ==
    /\ pc[SyncUser] = "done"
    /\ Len(fate[SyncUser]) = 2
    /\ fate[SyncUser][1] \in {"malformed", "nokey", "keyfetch", "invalid"}
    /\ fate[SyncUser][2] = "persisted"
    /\ Len(db[SyncUser]) = 1

\* C8: no failure of a single visa leaves update_user_visas or makes the
\* decorator call it again.
C8_VisaFailuresAbsorbed ==
    \A u \in Users : "visa" \notin errors[u]

\* C9: the key set of an issuer is fetched only when the lookup of the
\* visa's (issuer, key id) in the cache found nothing, and the cache is
\* written by such a fetch alone.
NotCached(cache, v) ==
    \/ v.iss \notin DOMAIN cache
    \/ v.kid \notin DOMAIN cache[v.iss]

C9_FetchOnlyOnMiss ==
    [][/\ \A u \in Users :
             pc[u] # "jwks" /\ pc'[u] = "jwks"
             => NotCached(pkey_cache, encoded_visas[u][idx[u]])
       /\ pkey_cache' # pkey_cache => \E u \in Users : pc[u] = "jwks"]_vars

C9_Witness ==
    /\ Len(fate[SyncUser]) = 2
    /\ encoded_visas[SyncUser][1] = encoded_visas[SyncUser][2]
    /\ fate[SyncUser] = <<"persisted", "persisted">>
    /\ resolve[SyncUser] = "hit"

(***************************************************************************)
(* RASVisa._parse_single_visa (ras_sync.py).                               *)
(***************************************************************************)
\* user.email, user.display_name, user.phone_number
UserFields(u) ==
    IF u = "u1"
    THEN [email |-> "u1@example.org", display_name |-> "User One",
          phone_number |-> None]
    ELSE [email |-> None, display_name |-> None, phone_number |-> "555"]

\* 'x or ""'
OrEmpty(x) == IF Truthy(x) THEN x ELSE ""

\* jwt.decode(encoded_visa, verify=False) raises on a malformed token
Decodes(v) == v.wf

\* 'time.time() <= expires' where the code has '<'
Unexpired_inclusive(t, expires) == t <= expires

\* 'if time.time() < expires:'
Unexpired(t, expires) == t < expires

Privileges == {"read-storage", "read"}

\* the consent group never appended
FullPhsid_unparsed(permission, parse_consent_code) ==
    GetOr(permission, "phs_id", "")

\* lines 64-70: full_phsid = phsid, and "." + consent_group is appended
\* under 'if parse_consent_code and consent_group'
FullPhsid(permission, parse_consent_code) ==
    LET phsid == GetOr(permission, "phs_id", "")
        consent_group == GetOr(permission, "consent_group", "")
    IN  IF parse_consent_code /\ Truthy(consent_group)
        THEN phsid \o "." \o consent_group
        ELSE phsid

\* the for loop over ras_dbgap_permissions: project[full_phsid] = privileges
RECURSIVE ProjectOf(_, _)
ProjectOf(permissions, parse_consent_code) ==
    IF permissions = <<>> THEN EmptyDict
    ELSE LET n == Len(permissions)
         IN  Put(ProjectOf(SubSeq(permissions, 1, n - 1), parse_consent_code),
                 FullPhsid(permissions[n], parse_consent_code), Privileges)

\* the tags of the first iteration kept
TagsOf_first(permissions) ==
    IF permissions = <<>> THEN EmptyDict
    ELSE [k \in {"dbgap_role"} |-> GetOr(permissions[1], "role", "")]

\* info["tags"] as the last iteration of the loop leaves it
TagsOf(permissions) ==
    IF permissions = <<>> THEN EmptyDict
    ELSE [k \in {"dbgap_role"} |-> GetOr(permissions[Len(permissions)], "role", "")]

\* the clear and commit of the except branch run on every call
Clears_finally(decoded, live) == 1 + (IF live THEN 0 ELSE 1)

\* the except branch without its clear and commit
Clears_expiredonly(decoded, live) == IF live THEN 0 ELSE 1

\* how often 'user.ga4gh_visas_v1 = []; db_session.commit()' runs: in the
\* except branch of the decoding, and in the else branch of the expiry test
Clears(decoded, live) == (IF decoded THEN 0 ELSE 1) + (IF live THEN 0 ELSE 1)

\* the result, and how often the visas were cleared and committed
_parse_single_visa(u, encoded_visa, expires, parse_consent_code, t) ==
    LET decoded == Decodes(encoded_visa)
        ras_dbgap_permissions ==
            IF decoded THEN encoded_visa.ras_dbgap_permissions ELSE <<>>
        live == Unexpired(t, expires)
        fields == UserFields(u)
    IN  [project |-> IF live
                     THEN ProjectOf(ras_dbgap_permissions, parse_consent_code)
                     ELSE EmptyDict,
         info |-> [tags |-> IF live THEN TagsOf(ras_dbgap_permissions)
                            ELSE EmptyDict,
                   email |-> OrEmpty(fields.email),
                   display_name |-> OrEmpty(fields.display_name),
                   phone_number |-> OrEmpty(fields.phone_number)],
         clears |-> Clears(decoded, live)]

ParseVisas == {Good, Good2, Malformed}

ParseSingleVisa(u) ==
    /\ \E encoded_visa \in ParseVisas, expires \in Times,
          parse_consent_code \in BOOLEAN :
          LET out == _parse_single_visa(u, encoded_visa, expires,
                                        parse_consent_code, now)
          IN  /\ parsed' = [op |-> "_parse_single_visa", user |-> u,
                            encoded_visa |-> encoded_visa, expires |-> expires,
                            parse_consent_code |-> parse_consent_code,
                            at |-> now, rows |-> Len(db[u]), out |-> out]
              /\ IF out.clears > 0
                 THEN /\ ga4gh_visas_v1' =
                             [ga4gh_visas_v1 EXCEPT ![u] = ClearedVisas(@)]
                      /\ db' = Commit(db, u, ga4gh_visas_v1'[u])
                 ELSE UNCHANGED <<ga4gh_visas_v1, db>>
    /\ UNCHANGED <<now, blacklist, call, pkey_cache, pc, tries, encoded_visas,
                   idx, fate, before, commits, resolve, errors, exchanged, g>>

\* the rows earlier syncs may have left to a user
StoredRows ==
    { <<>>, <<PriorRow>>,
      <<PriorRow, [GA4GHVisaV1(Good2) EXCEPT !.era = "prior"]>> }

InitParse ==
    /\ now = 0
    /\ InitJwt
    /\ ga4gh_visas_v1 \in [Users -> StoredRows]
    /\ db = ga4gh_visas_v1
    /\ InitLocals
    /\ parsed = NoParse
    /\ InitLogin

NextParse ==
    \/ \E u \in Users : ParseSingleVisa(u)
    \/ Tick

SpecParse == InitParse /\ [][NextParse]_vars

IsParse == parsed.op = "_parse_single_visa"

\* C10: a visa gives access rows only when the clock is strictly before
\* expires; at or after expires the project map is empty and all rows of
\* the user are cleared, with a commit.
C10_ExpiredVisaGivesNothing ==
    IsParse =>
       /\ parsed.out.project # EmptyDict => parsed.at < parsed.expires
       /\ parsed.at >= parsed.expires
             => /\ parsed.out.project = EmptyDict
                /\ parsed.out.clears >= 1
                /\ ga4gh_visas_v1[parsed.user] = <<>>
                /\ db[parsed.user] = <<>>

C10_Witness ==
    /\ IsParse
    /\ Decodes(parsed.encoded_visa)
    /\ parsed.at = parsed.expires
    /\ parsed.rows > 0
    /\ db[parsed.user] = <<>>

\* the call mapped a visa that decodes and is unexpired at the time of the call
IsLiveParse ==
    /\ IsParse
    /\ Decodes(parsed.encoded_visa)
    /\ parsed.at < parsed.expires

PermissionsOf(v) == Range(v.ras_dbgap_permissions)

HasConsentGroup(permission) ==
    /\ "consent_group" \in DOMAIN permission
    /\ permission.consent_group # ""

\* phs_id + '.' + consent_group, the consent group of a permission without
\* one being the empty string
SuffixedKey(permission) ==
    permission.phs_id \o "." \o GetOr(permission, "consent_group", "")

\* C11 as stated: every permission of an unexpired visa gives the key
\* phs_id + '.' + consent_group when consent-code parsing is enabled and
\* the key phs_id when it is disabled, and every key is mapped to exactly
\* {read, read-storage}.
C11_KeyPerPermission_AsStated ==
    IsLiveParse =>
       /\ \A p \in PermissionsOf(parsed.encoded_visa) :
             (IF parsed.parse_consent_code THEN SuffixedKey(p) ELSE p.phs_id)
                \in DOMAIN parsed.out.project
       /\ \A k \in DOMAIN parsed.out.project :
             parsed.out.project[k] = {"read", "read-storage"}

\* the key line 68-70 gives a permission
KeyOf(permission, parse_consent_code) ==
    IF parse_consent_code /\ HasConsentGroup(permission)
    THEN SuffixedKey(permission)
    ELSE permission.phs_id

\* C11: every permission of an unexpired visa gives the key
\* phs_id + '.' + consent_group when consent-code parsing is enabled and
\* the permission has a non-empty consent group, and the key phs_id
\* otherwise; the project map has these keys and no other, each mapped to
\* exactly {read, read-storage}.
C11_KeyPerPermission ==
    IsLiveParse =>
       /\ DOMAIN parsed.out.project =
             { KeyOf(p, parsed.parse_consent_code) :
                  p \in PermissionsOf(parsed.encoded_visa) }
       /\ \A k \in DOMAIN parsed.out.project :
             parsed.out.project[k] = {"read", "read-storage"}

C11_Witness ==
    /\ IsLiveParse
    /\ parsed.parse_consent_code
    /\ parsed.encoded_visa = Good2
    /\ DOMAIN parsed.out.project = {"phs000200.c1", "phs000300"}

(***************************************************************************)
(* A sync followed by the mapping of what it stored.                       *)
(***************************************************************************)
\* the attempt that returned fetched the one visa v, valid at the time of
\* the sync, and the key of its (issuer, key id) was resolved
FetchedOneValidVisa(u) ==
    /\ pc[u] = "done"
    /\ before[u] = 0
    /\ Len(encoded_visas[u]) = 1
    /\ FullyValid(encoded_visas[u][1], now)
    /\ Materializes(encoded_visas[u][1])
    /\ fate[u][1] \notin {"keyfetch", "nokey"}

\* _parse_single_visa on a stored row, consent-code parsing enabled
MappedAt(u, row, t) == _parse_single_visa(u, row.ga4gh_visa, row.expires, TRUE, t)

\* the times at which the mapper takes the row for unexpired
LiveTimes(row) == { t \in Times : t < row.expires }

OneRowStored(u) ==
    /\ db[u] = << GA4GHVisaV1(encoded_visas[u][1]) >>
    /\ ga4gh_visas_v1[u] = db[u]

\* C12 as stated: from no stored visa, a sync that fetched one valid,
\* unexpired visa leaves exactly one stored row, and mapping it with
\* consent-code parsing enabled gives for every permission the key
\* phs_id.consent_group with {read, read-storage}, and a dbgap_role tag
\* equal to that permission's role.
C12_OneVisaEndToEnd_AsStated ==
    \A u \in Users :
       FetchedOneValidVisa(u) =>
          /\ OneRowStored(u)
          /\ \A t \in LiveTimes(db[u][1]) :
                LET out == MappedAt(u, db[u][1], t)
                IN  \A p \in PermissionsOf(encoded_visas[u][1]) :
                       /\ SuffixedKey(p) \in DOMAIN out.project
                       /\ out.project[SuffixedKey(p)] = {"read", "read-storage"}
                       /\ out.info.tags = [k \in {"dbgap_role"} |-> p.role]

LastOf(s) == s[Len(s)]

\* C12: from no stored visa, a sync that fetched one valid, unexpired visa
\* leaves exactly one stored row, and mapping it with consent-code parsing
\* enabled while it is unexpired gives one key per permission, namely
\* phs_id.consent_group for a permission with a consent group and phs_id
\* for one without, each with {read, read-storage}, and a dbgap_role tag
\* equal to the role of the last permission.
C12_OneVisaEndToEnd ==
    \A u \in Users :
       FetchedOneValidVisa(u) =>
          /\ OneRowStored(u)
          /\ \A t \in LiveTimes(db[u][1]) :
                LET out == MappedAt(u, db[u][1], t)
                    permissions == encoded_visas[u][1].ras_dbgap_permissions
                IN  /\ DOMAIN out.project = { KeyOf(p, TRUE) : p \in Range(permissions) }
                    /\ Cardinality(DOMAIN out.project) = Len(permissions)
                    /\ \A p \in Range(permissions) :
                          /\ HasConsentGroup(p) => SuffixedKey(p) \in DOMAIN out.project
                          /\ out.project[KeyOf(p, TRUE)] = {"read", "read-storage"}
                    /\ out.info.tags =
                          [k \in {"dbgap_role"} |-> LastOf(permissions).role]

\* the scenario of the specification: one permission, with a consent group
C12_Witness ==
    /\ FetchedOneValidVisa(SyncUser)
    /\ encoded_visas[SyncUser][1] = Good
    /\ Len(db[SyncUser]) = 1
    /\ MappedAt(SyncUser, db[SyncUser][1], 0).project
          = [k \in {"phs000200.c1"} |-> {"read", "read-storage"}]
    /\ MappedAt(SyncUser, db[SyncUser][1], 0).info.tags
          = [k \in {"dbgap_role"} |-> "member"]

(***************************************************************************)
(* The specification of the login callback, and the properties of          *)
(* get_user_id and get_userinfo.                                           *)
(***************************************************************************)
InitLoginSpec ==
    /\ now = 0
    /\ InitJwt
    /\ InitSync({})
    /\ parsed = NoParse
    /\ InitLogin

NextLogin ==
    \/ GetUserId
    \/ EndRequest

SpecLogin == InitLoginSpec /\ [][NextLogin]_vars

IsExchange == exchanged.op = "get_user_id"

ReturnedUsername == IsExchange /\ "username" \in DOMAIN exchanged.out

\* the four places a username is looked for, in the order of precedence;
\* the userinfo is the document of a 200 response and else empty
UsernameSources(x) ==
    LET userinfo == IF x.res.reached /\ x.res.status_code = 200
                    THEN x.res.json ELSE EmptyDict
    IN  << Get(userinfo, "UserID"), Get(userinfo, "userid"),
           Get(userinfo, "preferred_username"), Get(x.id_token.claims, "sub") >>

NonEmpty(v) == v # None /\ v # ""

\* every call of the exchange returned: the token and key fetches, the
\* userinfo request and both decodings
StepsSucceeded(x) ==
    /\ x.token_ok
    /\ x.keys_ok
    /\ x.res.reached
    /\ x.res.status_code = 200 => x.res.is_json
    /\ x.id_token.decodes
    /\ x.access_ok

\* C13: the username get_user_id returns is the first non-empty value
\* among userinfo UserID, userinfo userid, userinfo preferred_username and
\* the ID token's sub, in this order; and when the exchange went through
\* and one of them is non-empty, a username is returned.
C13_UsernamePrecedence ==
    IsExchange =>
       LET src == UsernameSources(exchanged.x)
       IN  /\ ReturnedUsername =>
                \E i \in 1..4 :
                   /\ NonEmpty(src[i])
                   /\ exchanged.out.username = src[i]
                   /\ \A j \in 1..(i - 1) : ~NonEmpty(src[j])
           /\ StepsSucceeded(exchanged.x) /\ (\E i \in 1..4 : NonEmpty(src[i]))
                => ReturnedUsername

\* UserID is empty, so userid wins over preferred_username and sub
C13_Witness ==
    /\ ReturnedUsername
    /\ UsernameSources(exchanged.x) = <<"", "bob", "alice", "carol">>
    /\ exchanged.out.username = "bob"

GotUserinfoResponse ==
    /\ IsExchange
    /\ exchanged.x.token_ok
    /\ exchanged.x.keys_ok
    /\ exchanged.x.res.reached

\* C20: for every response with a status other than 200, get_userinfo
\* returns the empty dict and does not raise, whether the body is JSON or
\* not; for a response with status 200 it returns the document of the
\* body.
C20_NonSuccessIsSoftFailure ==
    GotUserinfoResponse =>
       LET res == exchanged.x.res
       IN  /\ res.status_code # 200
                => /\ ~exchanged.userinfo.raised
                   /\ exchanged.userinfo.value = EmptyDict
           /\ res.status_code = 200 /\ res.is_json
                => /\ ~exchanged.userinfo.raised
                   /\ exchanged.userinfo.value = res.json

\* a 401 whose body names a UserID: the body is dropped, and the username
\* comes from the ID token
C20_Witness ==
    /\ GotUserinfoResponse
    /\ exchanged.x.res.status_code = 401
    /\ exchanged.x.res.json # EmptyDict
    /\ exchanged.userinfo = [raised |-> FALSE, value |-> EmptyDict]
    /\ ReturnedUsername
    /\ exchanged.out.username = "carol"

(***************************************************************************)
(* Properties of a whole call of update_user_visas: what it leaves, what   *)
(* the decorator runs again, and that it ends.                             *)
(***************************************************************************)
Finished(u) == pc[u] \in {"done", "failed"}

AcceptedCount(fates) ==
    Cardinality({ i \in 1..Len(fates) : fates[i] = "persisted" })

\* C15: when update_user_visas is over, by returning or by the last
\* attempt's exception, the user's rows are exactly the rows of the visas
\* the final attempt accepted, one row for each accepted position of its
\* batch and in that order, in the session and in the stored rows alike;
\* no row from before the call or from an earlier attempt is left.
C15_SyncReplacesWholesale ==
    \A u \in Users :
       Finished(u) =>
          /\ db[u] = PersistedRows(encoded_visas[u], fate[u])
          /\ ga4gh_visas_v1[u] = db[u]
          /\ Len(db[u]) = AcceptedCount(fate[u])
          /\ \A i \in 1..Len(db[u]) : db[u][i].era = "current"

\* the user had a row, an attempt raised, and the last attempt accepted
\* one visa of two
C15_Witness ==
    /\ pc[SyncUser] = "done"
    /\ before[SyncUser] > 0
    /\ tries[SyncUser] = MaxTries
    /\ errors[SyncUser] # {}
    /\ fate[SyncUser] = <<"invalid", "persisted">>
    /\ Len(db[SyncUser]) = 1

Rejections == {"malformed", "keyfetch", "nokey", "invalid"}

\* the attempt got a batch, and no visa of it can pass the validation
NoVisaValid(u) ==
    /\ encoded_visas[u] # <<>>
    /\ \A i \in 1..Len(encoded_visas[u]) : ~FullyValid(encoded_visas[u][i], now)

\* the attempt went through its batch and rejected every visa, for what
\* the visa is or for its key not being resolved
AllRejected(u) ==
    /\ encoded_visas[u] # <<>>
    /\ Len(fate[u]) = Len(encoded_visas[u])
    /\ Range(fate[u]) \subseteq Rejections

\* C16: when the token and the userinfo were retrieved and every visa of
\* the batch fails validation, the attempt raises nothing and is not
\* retried: it goes through the batch and returns, and the user has no
\* row.
C16_AllInvalidIsNotAnError ==
    \A u \in Users :
       /\ NoVisaValid(u)
             => /\ pc[u] \in {"visa", "jwks", "done"}
                /\ db[u] = <<>> /\ ga4gh_visas_v1[u] = <<>>
                /\ tries[u] = 1 => errors[u] = {}
       /\ AllRejected(u)
             => /\ pc[u] = "done"
                /\ db[u] = <<>> /\ ga4gh_visas_v1[u] = <<>>
                /\ commits[u] = 1
                /\ tries[u] = 1 => errors[u] = {}

C16_Witness ==
    /\ pc[SyncUser] = "done"
    /\ tries[SyncUser] = 1
    /\ before[SyncUser] > 0
    /\ NoVisaValid(SyncUser)
    /\ fate[SyncUser] = <<"malformed", "invalid">>
    /\ db[SyncUser] = <<>>

\* C17 as stated: a retry runs the token and userinfo fetches again and
\* nothing else: ClearVisas runs in the first attempt only, and no attempt
\* after one that reached the validation validates or persists again.
C17_RetryOnlyRefetches_AsStated ==
    \A u \in Users :
       /\ pc[u] = "clear" => tries[u] = 1
       /\ tries[u] > 1 /\ pc[u] \in {"visa", "jwks"} => "visa" \notin errors[u]

\* a step that is a retry: the decorator starts the next attempt
IsRetry(u) == tries[u] >= 1 /\ tries'[u] = tries[u] + 1

\* C17: a retry runs the whole of update_user_visas again: every attempt
\* starts with ClearVisas and its commit, so that they run once per attempt
\* and up to max_tries times in a call, and the fetches of an attempt are
\* reached through its ClearVisas alone, with no row stored.
C17_RetryRunsWholeFunction ==
    [][\A u \in Users :
          /\ IsRetry(u) => pc'[u] = "clear"
          /\ pc[u] # "retrieve" /\ pc'[u] = "retrieve"
                => /\ pc[u] = "clear"
                   /\ db'[u] = <<>>
                   /\ ga4gh_visas_v1'[u] = <<>>
                   /\ commits'[u] = 1]_vars

\* the second attempt of a call has cleared and committed again
C17_Witness ==
    /\ tries[SyncUser] = 2
    /\ pc[SyncUser] = "retrieve"
    /\ errors[SyncUser] = {"token"}
    /\ commits[SyncUser] = 1

\* C18 as stated: a failed token fetch, userinfo fetch or key-set fetch
\* ends the attempt, which is retried until max_tries attempts were made
\* and then fails the sync; so no attempt goes on after a failed key-set
\* fetch, and a sync fails only after max_tries attempts.
C18_NetworkFailuresRetried_AsStated ==
    \A u \in Users :
       /\ "keyfetch" \in Range(fate[u]) => pc[u] \in {"clear", "failed"}
       /\ pc[u] = "failed" => tries[u] = MaxTries

\* a step in which the fetch of the token, of the userinfo or of the
\* passport's visas raised
FetchRaised(u) ==
    /\ pc[u] = "retrieve"
    /\ pc'[u] \notin {"retrieve", "visa", "done"}

\* a step in which the fetch of an issuer's key set raised
KeyFetchRaised(u) ==
    /\ pc[u] = "jwks"
    /\ fate'[u] = Append(fate[u], "keyfetch")

\* C18: a failed token or userinfo fetch (a userinfo answer without a
\* valid passport included) ends the attempt, and the call is attempted
\* again until max_tries attempts were made; the failure of the last
\* attempt fails the sync.  A failed key-set fetch is not retried: the visa
\* is discarded and the attempt goes on with the next visa.
C18_NetworkFailuresRetried ==
    /\ [](\A u \in Users :
            /\ pc[u] = "failed" => tries[u] = MaxTries /\ errors[u] # {}
            /\ tries[u] <= MaxTries)
    /\ [][\A u \in Users :
            /\ FetchRaised(u)
                  => /\ errors'[u] \cap {"token", "userinfo"} # {}
                     /\ IF tries[u] < MaxTries
                        THEN pc'[u] = "clear" /\ tries'[u] = tries[u] + 1
                        ELSE pc'[u] = "failed" /\ tries'[u] = tries[u]
            /\ KeyFetchRaised(u)
                  => /\ pc'[u] \in {"visa", "done"}
                     /\ tries'[u] = tries[u]
                     /\ errors'[u] = errors[u]
                     /\ db'[u] = db[u]]_vars

\* the userinfo fetch failed once, and in the second attempt the key-set
\* fetch failed and the sync returned
C18_Witness ==
    /\ pc[SyncUser] = "done"
    /\ tries[SyncUser] = MaxTries
    /\ errors[SyncUser] = {"userinfo"}
    /\ fate[SyncUser] = <<"keyfetch">>

(***************************************************************************)
(* The specification of one user's syncs in which a call that was          *)
(* entered keeps running: every statement of update_user_visas returns or  *)
(* raises, and the decorator's sleep between two attempts ends.            *)
(***************************************************************************)
\* one visa for each way through the body of the loop: persisted,
\* malformed, no key, invalid, and the KeyError after the validation
LoopPaths == {Good, Malformed, UnknownKid, NoSub, NoClaim}

\* the try block of lines 166-175, the passport carrying such visas only
RetrieveLoopPaths(u) ==
    /\ RetrieveVisas(u)
    /\ Range(encoded_visas'[u]) \subseteq LoopPaths

Step(u) ==
    \/ ClearVisas(u)
    \/ RetrieveLoopPaths(u)
    \/ ProcessVisa(u)
    \/ RefreshPkeyCache(u)

NextFair ==
    \/ Call(SyncUser)
    \/ ClearVisas(SyncUser)
    \/ RetrieveLoopPaths(SyncUser)
    \/ ProcessVisa(SyncUser)
    \/ RefreshPkeyCache(SyncUser)
    \/ Finish(SyncUser)

SpecFair == Init /\ [][NextFair]_vars /\ WF_vars(Step(SyncUser))

VerifiedRefresh(token, t) ==
    /\ token.present
    /\ token.signer = "fence_key"
    /\ token.exp >= t
    /\ "refresh" \in token.aud
    /\ token.iss = "https://fence.example"

HasJti(token) == token.jti # "None" /\ token.jti # ""

\* C21: validate_refresh_token returns True only for a token that is
\* present, verifies under the system's key with the audience refresh and
\* the host name as issuer, carries a non-empty jti, and whose jti is not
\* in the blacklist; a verified token without jti is answered False with
\* 'Token missing jti claim.', whatever the blacklist holds.
C21_RefreshAcceptedOnlyIfAllHold ==
    IsRefreshCall =>
       /\ Accepted
             => /\ VerifiedRefresh(call.token, call.at)
                /\ HasJti(call.token)
                /\ call.token.jti \notin blacklist
       /\ VerifiedRefresh(call.token, call.at) /\ ~HasJti(call.token)
             => call.out = Returned(FALSE, "Token missing jti claim.")

\* a verified token without jti, rejected while the blacklist is not empty
C21_Witness ==
    /\ IsRefreshCall
    /\ VerifiedRefresh(call.token, call.at)
    /\ ~HasJti(call.token)
    /\ blacklist # {}
    /\ call.out = Returned(FALSE, "Token missing jti claim.")

(***************************************************************************)
(* The commits of one attempt of update_user_visas.                        *)
(***************************************************************************)
\* the attempt has cleared and committed, and the next one has not yet
AfterClear(u) ==
    \/ pc[u] \in {"retrieve", "visa", "jwks", "done", "failed"}
    \/ pc[u] = "clear" /\ tries[u] > 1

\* the step ends the handling of a visa with the outcome f
Handled(u, f) == fate'[u] = Append(fate[u], f)

\* C22: an attempt commits once with the clear and once with every visa
\* it accepts, so that 1 + the number of accepted visas commits were made
\* and the stored rows are those of the visas accepted so far; a visa that
\* is rejected, or whose handling raises, is handled without a commit and
\* leaves the rows accepted before it stored.
C22_CommitPerAcceptedVisa ==
    /\ [](\A u \in Users :
            AfterClear(u) =>
               /\ commits[u] = 1 + AcceptedCount(fate[u])
               /\ Len(db[u]) = AcceptedCount(fate[u])
               /\ db[u] = ga4gh_visas_v1[u])
    /\ [][\A u \in Users :
            /\ pc[u] = "clear"
                  => commits'[u] = 1 /\ db'[u] = <<>>
            /\ Handled(u, "persisted")
                  => /\ commits'[u] = commits[u] + 1
                     /\ SubSeq(db'[u], 1, Len(db[u])) = db[u]
                     /\ Len(db'[u]) = Len(db[u]) + 1
            /\ (\E f \in Rejections \cup {"error"} : Handled(u, f))
                  => /\ commits'[u] = commits[u]
                     /\ db'[u] = db[u]
                     /\ ga4gh_visas_v1'[u] = ga4gh_visas_v1[u]]_vars

\* the first visa was accepted and the handling of the second one raised:
\* two commits, and the first visa's row is stored
C22_Witness ==
    /\ fate[SyncUser] = <<"persisted", "error">>
    /\ pc[SyncUser] \in {"clear", "failed"}
    /\ commits[SyncUser] = 2
    /\ Len(db[SyncUser]) = 1
    /\ db[SyncUser][1].era = "current"

(***************************************************************************)
(* The specification of two users' syncs running at the same time, as in   *)
(* the bulk job: the steps of the two calls interleave in any order, and   *)
(* the calls share pkey_cache.                                             *)
(***************************************************************************)
\* the passports of this specification: one visa each
TwoBatches == { <<Good>>, <<Good2>>, <<NoClaim>> }

\* the token exchange fails, the userinfo endpoint is out of reach, or it
\* answers with one of these passports
TwoResponses ==
    {TokenFailure}
    \cup { [token |-> TRUE, res |-> r] :
              r \in {Unreachable}
                    \cup { HttpResponse(200, TRUE, PassportDoc(Passport(TRUE, b))) :
                               b \in TwoBatches } }

RetrieveTwo(u) == RetrieveFrom(u, TwoResponses)

\* every user has a stored visa of an earlier sync
InitTwo ==
    /\ now = 1
    /\ InitJwt
    /\ InitSync({})
    /\ parsed = NoParse
    /\ InitLogin

NextTwo ==
    \E u \in Users :
       \/ Call(u)
       \/ ClearVisas(u)
       \/ RetrieveTwo(u)
       \/ ProcessVisa(u)
       \/ RefreshPkeyCache(u)
       \/ Finish(u)

SpecTwo == InitTwo /\ [][NextTwo]_vars

\* the step belongs to the call of u: it moves u's call on
StepOf(u) == pc'[u] # pc[u] \/ tries'[u] # tries[u] \/ idx'[u] # idx[u]

\* C23: a step of one user's sync leaves every other user's rows as they
\* are, in the session and in the stored rows; and whatever the
\* interleaving, when a user's sync is over the user's rows are those of
\* the visas of its own batch that its own final attempt accepted, every
\* visa having met a fate it earns by itself.
C23_SyncsIndependent ==
    /\ [][\A u \in Users :
            db'[u] # db[u] \/ ga4gh_visas_v1'[u] # ga4gh_visas_v1[u]
            => /\ StepOf(u)
               /\ \A w \in Users \ {u} :
                     /\ ~StepOf(w)
                     /\ db'[w] = db[w]
                     /\ ga4gh_visas_v1'[w] = ga4gh_visas_v1[w]]_vars
    /\ [](\A u \in Users :
            Finished(u) =>
               /\ \A i \in 1..Len(fate[u]) :
                     fate[u][i] \in OwnFates(encoded_visas[u][i], now)
               /\ db[u] = PersistedRows(encoded_visas[u], fate[u])
               /\ ga4gh_visas_v1[u] = db[u])

\* u1's sync failed on the token while u2's sync, started with it, stored
\* a visa
C23_Witness ==
    /\ pc["u1"] = "failed"
    /\ errors["u1"] = {"token"}
    /\ db["u1"] = <<>>
    /\ pc["u2"] = "done"
    /\ fate["u2"] = <<"persisted">>
    /\ Len(db["u2"]) = 1

\* the (issuer, key id) pairs the cache has resolved
Resolved(cache) ==
    { <<iss, kid>> \in {RAS, EVIL} \X {"k1", "k2", "k9", "e1"} :
         Truthy(Get(GetOr(cache, iss, EmptyDict), kid)) }

\* the visa the call of u handled last
LastVisa(u) == encoded_visas[u][Len(fate[u])]

LastFate(u) == fate[u][Len(fate[u])]

Validated(u) == fate[u] # <<>> /\ LastVisa(u).wf /\ LastFate(u) \notin {"keyfetch", "nokey"}

C25_LiveParseHasNoEffect ==
    /\ [](IsLiveParse =>
            /\ parsed.out.clears = 0
            /\ Len(db[parsed.user]) = parsed.rows
            /\ parsed.out = _parse_single_visa(parsed.user, parsed.encoded_visa,
                                               MaxTime + 1,
                                               parsed.parse_consent_code, 0))
    /\ [][IsLiveParse' /\ parsed' # parsed
            => db' = db /\ ga4gh_visas_v1' = ga4gh_visas_v1]_vars

\* a live visa mapped for a user with two stored rows, after the clock
\* moved on
C25_Witness ==
    /\ IsLiveParse
    /\ parsed.at > 0
    /\ parsed.expires = MaxTime
    /\ parsed.rows = 2
    /\ Len(db[parsed.user]) = 2
    /\ parsed.out.project # EmptyDict

\* the contact summary of a user: the fields, '' for one that is not set
ContactOf(u) ==
    [email |-> OrEmpty(UserFields(u).email),
     display_name |-> OrEmpty(UserFields(u).display_name),
     phone_number |-> OrEmpty(UserFields(u).phone_number)]

\* C26: a call on a visa that cannot be decoded returns; it clears all
\* rows of the user and commits, and returns an empty project map, empty
\* tags and the user's contact summary, the same before expires as at or
\* after it.
C26_UndecodableVisaClears ==
    IsParse /\ ~parsed.encoded_visa.wf =>
       /\ parsed.out.clears >= 1
       /\ ga4gh_visas_v1[parsed.user] = <<>>
       /\ db[parsed.user] = <<>>
       /\ parsed.out.project = EmptyDict
       /\ parsed.out.info.tags = EmptyDict
       /\ [f \in {"email", "display_name", "phone_number"} |-> parsed.out.info[f]]
             = ContactOf(parsed.user)

\* an undecodable visa handed in before its expires, for a user with rows
C26_Witness ==
    /\ IsParse
    /\ ~parsed.encoded_visa.wf
    /\ parsed.at < parsed.expires
    /\ parsed.rows > 0
    /\ db[parsed.user] = <<>>
    /\ parsed.out.info.email = "u1@example.org"
    /\ parsed.out.info.phone_number = ""

====
